---------------------------- MODULE Spec2Model ----------------------------
(***************************************************************************)
(* A model of pyphi's Network (src/pyphi/network.py): construction, the    *)
(* tpm / connectivity_matrix / perturb_vector property setters, equality   *)
(* and hashing, the cached potential-purviews query and                    *)
(* generate_node_indices.                                                  *)
(*                                                                         *)
(* A numpy array is a record [shape, flat]: its shape and its elements in  *)
(* C (row-major) order.  Probabilities are integers on a grid of 1/One,    *)
(* so that 0 is 0.0, Half is 0.5 and One is 1.0.  A tuple of node indices  *)
(* that the code only filters or looks up (a mechanism, a purview) is the  *)
(* set of its elements; the tuple generate_node_indices returns is a       *)
(* sequence.                                                               *)
(***************************************************************************)
EXTENDS Integers, Sequences, FiniteSets, TLC

VARIABLES
    nets,      \* slot -> the Network object bound to it, or NoNet
    caches,    \* cache object -> its entries, key -> entry or Miss
    calls,     \* slot -> key -> runs of the undecorated _potential_purviews
    last,      \* outcome of the last operation a caller made
    workers,   \* worker -> its position inside one cached query
    gni,       \* outcome of the last generate_node_indices call
    given,     \* the state-by-state TPM a caller holds, or None
    sias       \* name -> the SystemIrreducibilityAnalysis bound to it, or NoSia

vars == <<nets, caches, calls, last, workers, gni, given, sias>>

\* ------------------------------------------------------------------ bounds
Half == 1
One == 2 * Half
MaxRuns == 3
MaxWorkers == 2
MaxSias == 2

\* ------------------------------------------------------------- numpy arrays
RECURSIVE Prod(_)
Prod(s) == IF s = <<>> THEN 1 ELSE Head(s) * Prod(Tail(s))

RECURSIVE Pow2(_)
Pow2(n) == IF n = 0 THEN 1 ELSE 2 * Pow2(n - 1)

RECURSIVE SumSeq(_)
SumSeq(s) == IF s = <<>> THEN 0 ELSE Head(s) + SumSeq(Tail(s))

\* a fresh array owns its data and is writeable
Array(shape, flat) == [shape |-> shape, flat |-> flat, writeable |-> TRUE]

\* a.flags.writeable = False
Frozen(a) == [a EXCEPT !.writeable = FALSE]

ndim(a) == Len(a.shape)

\* a[i][j] of a 2-D array, i and j counted from 0
At2(a, i, j) == a.flat[i * a.shape[2] + j + 1]

\* the argument None where an array is expected
None == [shape |-> <<>>, flat |-> <<>>, writeable |-> TRUE]

\* np.ones(shape) * v
Full(shape, v) == Array(shape, [p \in 1..Prod(shape) |-> v])

\* np.array_equal: the same shape and every element equal
array_equal(x, y) ==
    /\ x.shape = y.shape
    /\ \A p \in 1..Len(x.flat) : x.flat[p] = y.flat[p]

\* ------------------------------------------------- state and index encoding
Log2(s) == CHOOSE n \in 0..s : Pow2(n) = s

IsPow2(s) == \E n \in 0..s : Pow2(n) = s

Bit(i, k) == (i \div Pow2(k)) % 2

\* shape [2] * N + [N]
NdShape(N) == [d \in 1..(N + 1) |-> IF d <= N THEN 2 ELSE N]

\* The C-order block q of the N-D tensor holds index (b_0, ..., b_{N-1}) with
\* b_j = bit N-1-j of q; the 2-D row of that state is sum of b_j * 2^j.
RECURSIVE RowOfBlock(_, _, _)
RowOfBlock(q, N, j) ==
    IF j = N THEN 0
    ELSE Bit(q, N - 1 - j) * Pow2(j) + RowOfBlock(q, N, j + 1)

\* utils.state_by_state: a square 2-D array
state_by_state(a) == ndim(a) = 2 /\ a.shape[1] = a.shape[2]

\* convert.state_by_state2state_by_node: per prior state, the mass of the
\* successor states in which each node is on, in N-D form
state_by_state2state_by_node(a) ==
    LET S == a.shape[2]
        N == Log2(S)
        OnMass(i, k) ==
            SumSeq([c \in 1..S |-> IF Bit(c - 1, k) = 1 THEN At2(a, i, c - 1) ELSE 0])
    IN  Array(NdShape(N),
              [p \in 1..(S * N) |->
                  OnMass(RowOfBlock((p - 1) \div N, N, 0), (p - 1) % N)])

\* convert.to_n_dimensional: a state-by-node array in the [2] * N + [N] form
to_n_dimensional(a) ==
    LET N == a.shape[ndim(a)]
    IN  IF a.shape = NdShape(N) THEN Array(a.shape, a.flat)
        ELSE Array(NdShape(N),
                   [p \in 1..Len(a.flat) |->
                       At2(a, RowOfBlock((p - 1) \div N, N, 0), (p - 1) % N)])

\* ---------------------------------------------------------------- validate
InRange(a) == \A p \in 1..Len(a.flat) : a.flat[p] \in 0..One

RowsSumToOne(a) ==
    \A i \in 0..(a.shape[1] - 1) :
        SumSeq([c \in 1..a.shape[2] |-> At2(a, i, c - 1)]) = One

\* validate.tpm: state-by-state S x S, state-by-node S x N or [2] * N + [N]
ValidTpm(a) ==
    /\ ndim(a) >= 2
    /\ Len(a.flat) = Prod(a.shape)
    /\ InRange(a)
    /\ LET N == a.shape[ndim(a)]
       IN  \/ /\ state_by_state(a)
              /\ a.shape[1] >= 2
              /\ IsPow2(a.shape[1])
              /\ RowsSumToOne(a)
           \/ /\ ndim(a) = 2
              /\ N >= 1
              /\ a.shape[1] = Pow2(N)
           \/ /\ N >= 1
              /\ a.shape = NdShape(N)

\* the connectivity-matrix rules of validate.network
ValidCm(cm, size) ==
    /\ ndim(cm) = 2
    /\ cm.shape[1] = cm.shape[2]
    /\ Len(cm.flat) = Prod(cm.shape)
    /\ \A p \in 1..Len(cm.flat) : cm.flat[p] \in {0, 1}
    /\ cm.shape[1] = size

\* node_labels=None, and a tuple of labels
NoLabels == [given |-> FALSE, names |-> <<>>]

Labels(names) == [given |-> TRUE, names |-> names]

\* node_labels, when given, are in bijection with node_indices
ValidLabels(labels, size) ==
    \/ ~labels.given
    \/ /\ Len(labels.names) = size
       /\ \A i, j \in 1..Len(labels.names) :
              labels.names[i] = labels.names[j] => i = j

\* -------------------------------------------------------------------- hash
HashMod == 251

\* utils.np_hash: a hash of an array's content
np_hash(a) ==
    (SumSeq([p \in 1..Len(a.flat) |-> (p + 1) * (a.flat[p] + 1)])
        + 31 * SumSeq([d \in 1..Len(a.shape) |-> (d + 1) * a.shape[d]])) % HashMod

\* hash of a 3-tuple
TupleHash(h1, h2, h3) == (961 * h1 + 31 * h2 + h3) % HashMod

\* ----------------------------------------------------------------- Network
Slots == {"A", "B"}

\* cache objects: the PurviewCache() the constructor of each slot may create
CacheIds == Slots
NoCache == "None"

NoNet == [type |-> "None"]

Constructed(o) == o.type = "Network"

\* Network.size
size(o) == o.tpm.shape[ndim(o.tpm)]

\* The tpm setter: the stored array and its hash, or a ValidationError.
TpmSetterRaises(tpm) == ~ValidTpm(tpm)

\* a setter that reshapes a state-by-node TPM without reordering its rows
TpmSetterStoresRowMajor(tpm) ==
    IF state_by_state(tpm) THEN Frozen(state_by_state2state_by_node(tpm))
    ELSE Frozen(Array(NdShape(tpm.shape[ndim(tpm)]), tpm.flat))

TpmSetterStores(tpm) ==
    IF state_by_state(tpm) THEN Frozen(state_by_state2state_by_node(tpm))
    ELSE Frozen(to_n_dimensional(tpm))

tpm_setter(o, tpm) ==
    LET stored == TpmSetterStores(tpm)
    IN  [o EXCEPT !.tpm = stored, !.tpm_hash = np_hash(stored)]

\* The connectivity_matrix setter: a copy of cm, or all ones when cm is None.
connectivity_matrix_setter(o, cm) ==
    LET stored == IF cm # None THEN Frozen(Array(cm.shape, cm.flat))
                  ELSE Frozen(Full(<<size(o), size(o)>>, 1))
    IN  [o EXCEPT !.connectivity_matrix = stored, !.cm_hash = np_hash(stored)]

\* The perturb_vector setter: a copy, or all one-half when None.
perturb_vector_setter(o, pv) ==
    LET stored == IF pv # None THEN Frozen(Array(pv.shape, pv.flat))
                  ELSE Frozen(Full(<<size(o)>>, Half))
    IN  [o EXCEPT !.perturb_vector = stored, !.pv_hash = np_hash(stored)]

\* validate.network, run on the object __init__ has filled in
ValidNetwork(o) ==
    /\ ValidTpm(o.tpm)
    /\ ValidCm(o.connectivity_matrix, size(o))
    /\ ValidLabels(o.node_labels, size(o))

\* the object as __init__ leaves it before validate.network
Built(n, tpm, cm, labels, pv, cache) ==
    LET o0 == [type |-> "Network",
               tpm |-> None, tpm_hash |-> 0,
               connectivity_matrix |-> None, cm_hash |-> 0,
               perturb_vector |-> None, pv_hash |-> 0,
               num_states |-> 0, node_indices |-> {},
               node_labels |-> NoLabels,
               purview_cache |-> NoCache]
        o1 == tpm_setter(o0, tpm)
        o2 == [o1 EXCEPT !.num_states = Pow2(size(o1)),
                         !.node_indices = 0..(size(o1) - 1),
                         !.node_labels = labels]
        o3 == connectivity_matrix_setter(o2, cm)
        o4 == perturb_vector_setter(o3, pv)
    IN  [o4 EXCEPT !.purview_cache = IF cache # NoCache THEN cache ELSE n]

\* an __eq__ that also compares the node labels
EqWithLabels(self, other) ==
    IF other.type = self.type
    THEN /\ array_equal(self.tpm, other.tpm)
         /\ array_equal(self.connectivity_matrix, other.connectivity_matrix)
         /\ array_equal(self.perturb_vector, other.perturb_vector)
         /\ self.node_labels = other.node_labels
    ELSE FALSE

\* Network.__eq__
Eq(self, other) ==
    IF other.type = self.type
    THEN /\ array_equal(self.tpm, other.tpm)
         /\ array_equal(self.connectivity_matrix, other.connectivity_matrix)
         /\ array_equal(self.perturb_vector, other.perturb_vector)
    ELSE FALSE

\* a __hash__ that also hashes the state of the purview cache
HashWithCache(self) ==
    (TupleHash(self.tpm_hash, self.cm_hash, self.pv_hash)
        + Cardinality({k \in DOMAIN caches[self.purview_cache] :
                          caches[self.purview_cache][k].hit})) % HashMod

\* Network.__hash__
Hash(self) == TupleHash(self.tpm_hash, self.cm_hash, self.pv_hash)

\* Network.to_json
to_json(self) ==
    [type |-> "dict", tpm |-> self.tpm, cm |-> self.connectivity_matrix,
     size |-> size(self)]

\* ------------------------------------------------- potential purviews
PAST == "past"
FUTURE == "future"
DIRECTIONS == {PAST, FUTURE}

\* utils.powerset of the node indices
powerset(nodes) == SUBSET nodes

Conn(cm, i, j) == At2(cm, i, j) # 0

\* cm[np.ix_(nodes1, nodes2)] raises IndexError outside the array
Indexable(cm, nodes1, nodes2) ==
    /\ ndim(cm) = 2
    /\ \A i \in nodes1 : i < cm.shape[1]
    /\ \A j \in nodes2 : j < cm.shape[2]

outputs_of(cm, srcs, nodes2) == {j \in nodes2 : \E i \in srcs : Conn(cm, i, j)}

inputs_to(cm, sinks, nodes1) == {i \in nodes1 : \E j \in sinks : Conn(cm, i, j)}

\* grow one block from a source until its inputs and outputs are closed
RECURSIVE BlockOf(_, _, _, _)
BlockOf(cm, srcs, nodes1, nodes2) ==
    LET sinks == outputs_of(cm, srcs, nodes2)
        more == inputs_to(cm, sinks, nodes1) \cup srcs
    IN  IF more = srcs THEN [sources |-> srcs, sinks |-> sinks]
        ELSE BlockOf(cm, more, nodes1, nodes2)

\* utils.block_reducible: the connections from nodes1 to nodes2 fall apart
\* into blocks (or one side is empty, or a node has no connection at all)
block_reducible(cm, nodes1, nodes2) ==
    IF nodes1 = {} \/ nodes2 = {} THEN TRUE
    ELSE IF \/ \E i \in nodes1 : outputs_of(cm, {i}, nodes2) = {}
            \/ \E j \in nodes2 : inputs_to(cm, {j}, nodes1) = {}
    THEN TRUE
    ELSE LET first == CHOOSE i \in nodes1 : \A k \in nodes1 : i <= k
             block == BlockOf(cm, {first}, nodes1, nodes2)
         IN  block.sources # nodes1 \/ block.sinks # nodes2

\* the connectivity tested for one purview: <<_from, to>>
FromTo(direction, mechanism, purview) ==
    IF direction = PAST THEN <<purview, mechanism>> ELSE <<mechanism, purview>>

reducible(cm, direction, mechanism, purview) ==
    LET ft == FromTo(direction, mechanism, purview)
    IN  block_reducible(cm, ft[1], ft[2])

\* irreducible_purviews: the purviews not reducible over the mechanism
irreducible_purviews(cm, direction, mechanism, purviews) ==
    {purview \in purviews : ~reducible(cm, direction, mechanism, purview)}

\* the IndexError of a connectivity matrix too small for a node index
PurviewsRaise(cm, direction, mechanism, purviews) ==
    \E purview \in purviews :
        LET ft == FromTo(direction, mechanism, purview)
        IN  ft[1] # {} /\ ft[2] # {} /\ ~Indexable(cm, ft[1], ft[2])

\* the body of Network._potential_purviews, without its cache decorator
potential_purviews_body(self, direction, mechanism) ==
    irreducible_purviews(self.connectivity_matrix, direction, mechanism,
                         powerset(self.node_indices))

\* -------------------------------------------------------- the purview cache
Miss == [hit |-> FALSE]

Entry(value, by) == [hit |-> TRUE, value |-> value, by |-> by]

Mechanisms == (SUBSET (0..1)) \ {{}}

Keys == DIRECTIONS \X Mechanisms

EmptyCache == [k \in Keys |-> Miss]

\* PurviewCache.key, get and set as cache.method uses them
cache_key(direction, mechanism) == <<direction, mechanism>>

cache_get(c, key) == caches[c][key]

cache_set(cs, c, key, entry) == [cs EXCEPT ![c][key] = entry]

\* ---------------------------------------------------------------- state
NoKey == <<PAST, {}>>

\* what the caller saw of its last operation: an exception out of op on n,
Outcome(op, n, raised) ==
    [op |-> op, net |-> n, raised |-> raised, key |-> NoKey, hit |-> FALSE,
     value |-> {}, by |-> n]

\* a normal return that carries no value,
Returned == Outcome("none", "A", "none")

\* or the answer of a potential-purviews query
Answer(n, key, hit, entry) ==
    [op |-> "potential_purviews", net |-> n, raised |-> "none", key |-> key,
     hit |-> hit, value |-> entry.value, by |-> entry.by]

NoGni == [net |-> "A", nodes |-> <<>>, raised |-> "none", indices |-> <<>>,
          called |-> FALSE]

Idle == [pc |-> "idle", net |-> "A", key |-> NoKey, value |-> {}, correct |-> TRUE]

Workers == 1..MaxWorkers

\* the names a caller binds analyses to
SiaIds == 1..(MaxSias + 1)

NoSia == [type |-> "None"]

Init ==
    /\ nets = [n \in Slots |-> NoNet]
    /\ caches = [c \in CacheIds |-> EmptyCache]
    /\ calls = [n \in Slots |-> [k \in Keys |-> 0]]
    /\ last = Returned
    /\ workers = [w \in Workers |-> Idle]
    /\ gni = NoGni
    /\ given = None
    /\ sias = [i \in SiaIds |-> NoSia]

RECURSIVE SumOver(_, _)
SumOver(f, S) ==
    IF S = {} THEN 0
    ELSE LET x == CHOOSE y \in S : TRUE IN f[x] + SumOver(f, S \ {x})

\* runs of the undecorated _potential_purviews so far, on any Network
TotalRuns == SumOver([n \in Slots |-> SumOver(calls[n], Keys)], Slots)

\* a cache object the caller can pass to a constructor
Passable(cache) ==
    \/ cache = NoCache
    \/ \E m \in Slots : Constructed(nets[m]) /\ nets[m].purview_cache = cache

\* Network.__init__: a new Network in slot n, or a ValidationError and none
Construct(n, tpm, cm, labels, pv, cache) ==
    /\ nets[n] = NoNet
    /\ n = "A" \/ Constructed(nets["A"])
    /\ Passable(cache)
    /\ IF TpmSetterRaises(tpm) \/ ~ValidNetwork(Built(n, tpm, cm, labels, pv, cache))
       THEN /\ nets' = nets
            /\ last' = Outcome("Network", n, "ValidationError")
       ELSE /\ nets' = [nets EXCEPT ![n] = Built(n, tpm, cm, labels, pv, cache)]
            /\ last' = Returned
    /\ UNCHANGED <<caches, calls, workers, gni, given, sias>>

\* network.tpm = tpm on a constructed Network
SetTpm(n, tpm) ==
    /\ Constructed(nets[n])
    /\ IF TpmSetterRaises(tpm)
       THEN /\ nets' = nets
            /\ last' = Outcome("tpm", n, "ValidationError")
       ELSE /\ nets' = [nets EXCEPT ![n] = tpm_setter(nets[n], tpm)]
            /\ last' = Returned
    /\ UNCHANGED <<caches, calls, workers, gni, given, sias>>

\* network.connectivity_matrix = cm on a constructed Network
SetCm(n, cm) ==
    /\ Constructed(nets[n])
    /\ nets' = [nets EXCEPT ![n] = connectivity_matrix_setter(nets[n], cm)]
    /\ last' = Returned
    /\ UNCHANGED <<caches, calls, workers, gni, given, sias>>

\* network.perturb_vector = pv on a constructed Network
SetPv(n, pv) ==
    /\ Constructed(nets[n])
    /\ nets' = [nets EXCEPT ![n] = perturb_vector_setter(nets[n], pv)]
    /\ last' = Returned
    /\ UNCHANGED <<caches, calls, workers, gni, given, sias>>

Attributes == {"tpm", "connectivity_matrix", "perturb_vector"}

ArrayOf(o, attr) ==
    CASE attr = "tpm" -> o.tpm
      [] attr = "connectivity_matrix" -> o.connectivity_matrix
      [] OTHER -> o.perturb_vector

WithArray(o, attr, a) ==
    CASE attr = "tpm" -> [o EXCEPT !.tpm = a]
      [] attr = "connectivity_matrix" -> [o EXCEPT !.connectivity_matrix = a]
      [] OTHER -> [o EXCEPT !.perturb_vector = a]

\* network.<attr>[...] = v: an in-place write to element p of the array
WriteInPlace(n, attr, p, v) ==
    /\ Constructed(nets[n])
    /\ p \in 1..Len(ArrayOf(nets[n], attr).flat)
    /\ IF ~ArrayOf(nets[n], attr).writeable
       THEN /\ nets' = nets
            /\ last' = Outcome("write", n, "ValueError")
       ELSE /\ nets' = [nets EXCEPT ![n] =
                   WithArray(nets[n], attr,
                       [ArrayOf(nets[n], attr) EXCEPT !.flat[p] = v])]
            /\ last' = Returned
    /\ UNCHANGED <<caches, calls, workers, gni, given, sias>>

\* Network._potential_purviews behind cache.method('purview_cache')
PotentialPurviews(n, direction, mechanism) ==
    LET self == nets[n]
        c == self.purview_cache
        key == cache_key(direction, mechanism)
        found == cache_get(c, key)
        cm == self.connectivity_matrix
        value == potential_purviews_body(self, direction, mechanism)
    IN  /\ Constructed(self)
        /\ mechanism \subseteq self.node_indices
        /\ IF found.hit
           THEN /\ last' = Answer(n, key, TRUE, found)
                /\ UNCHANGED <<caches, calls>>
           ELSE /\ TotalRuns < MaxRuns
                /\ calls' = [calls EXCEPT ![n][key] = @ + 1]
                /\ IF PurviewsRaise(cm, direction, mechanism,
                                    powerset(self.node_indices))
                   THEN /\ last' = [Outcome("potential_purviews", n, "IndexError")
                                        EXCEPT !.key = key]
                        /\ UNCHANGED caches
                   ELSE /\ caches' = cache_set(caches, c, key, Entry(value, n))
                        /\ last' = Answer(n, key, FALSE, Entry(value, n))
        /\ UNCHANGED <<nets, workers, gni, given, sias>>

\* ------------------------------------- concurrent potential-purviews queries
\* One cached query by a worker thread, in the steps cache.method takes:
\* cache.get, then on a miss the computation, then cache.set.  A worker that
\* found an entry holds it at "read" until it returns; `correct` records
\* whether that entry was the result for the Network as it was when read.
WorkerGet(w, n, direction, mechanism) ==
    LET self == nets[n]
        key == cache_key(direction, mechanism)
        found == cache_get(self.purview_cache, key)
    IN  /\ workers[w].pc = "idle"
        /\ Constructed(self)
        /\ mechanism \subseteq self.node_indices
        /\ workers' = [workers EXCEPT ![w] =
              IF found.hit
              THEN [pc |-> "read", net |-> n, key |-> key, value |-> found.value,
                    correct |->
                        /\ ~PurviewsRaise(self.connectivity_matrix, direction,
                                          mechanism, powerset(self.node_indices))
                        /\ found.value =
                              potential_purviews_body(self, direction, mechanism)]
              ELSE [pc |-> "miss", net |-> n, key |-> key, value |-> {},
                    correct |-> TRUE]]
        /\ UNCHANGED <<nets, caches, calls, last, gni, given, sias>>

WorkerCompute(w) ==
    LET self == nets[workers[w].net]
        key == workers[w].key
    IN  /\ workers[w].pc = "miss"
        /\ TotalRuns < MaxRuns
        /\ calls' = [calls EXCEPT ![workers[w].net][key] = @ + 1]
        /\ workers' = [workers EXCEPT ![w] =
              IF PurviewsRaise(self.connectivity_matrix, key[1], key[2],
                               powerset(self.node_indices))
              THEN Idle
              ELSE [@ EXCEPT !.pc = "computed",
                             !.value = potential_purviews_body(self, key[1], key[2])]]
        /\ UNCHANGED <<nets, caches, last, gni, given, sias>>

WorkerSet(w) ==
    /\ workers[w].pc = "computed"
    /\ caches' = cache_set(caches, nets[workers[w].net].purview_cache,
                           workers[w].key, Entry(workers[w].value, workers[w].net))
    /\ workers' = [workers EXCEPT ![w] = Idle]
    /\ UNCHANGED <<nets, calls, last, gni, given, sias>>

WorkerReturn(w) ==
    /\ workers[w].pc = "read"
    /\ workers' = [workers EXCEPT ![w] = Idle]
    /\ UNCHANGED <<nets, caches, calls, last, gni, given, sias>>

\* --------------------------------------------------- generate_node_indices
\* an element of `nodes`: a str or an int
Str(v) == [str |-> TRUE, s |-> v, i |-> 0]

Idx(v) == [str |-> FALSE, s |-> "", i |-> v]

Digits == {"0", "1"}

\* int(node): the int itself, the number a str of digits spells, or a ValueError
IntRaises(node) == node.str /\ node.s \notin Digits

int(node) == IF ~node.str THEN node.i ELSE IF node.s = "0" THEN 0 ELSE 1

\* the dict(zip(node_labels, node_indices)) of labels2indices: label -> index
LabelMap(self) ==
    [l \in {self.node_labels.names[p] : p \in DOMAIN self.node_labels.names} |->
        CHOOSE p \in 0..(Len(self.node_labels.names) - 1) :
            /\ self.node_labels.names[p + 1] = l
            /\ p \in self.node_indices
            /\ \A q \in (p + 1)..(Len(self.node_labels.names) - 1) :
                  q \in self.node_indices => self.node_labels.names[q + 1] # l]

\* Network.labels2indices: "none", or the exception it raises
Labels2IndicesRaises(self, labels) ==
    IF ~self.node_labels.given THEN "TypeError"
    ELSE IF \E p \in DOMAIN labels : labels[p].s \notin DOMAIN LabelMap(self)
    THEN "KeyError"
    ELSE "none"

labels2indices(self, labels) == [p \in DOMAIN labels |-> LabelMap(self)[labels[p].s]]

\* tuple(sorted(set(indices)))
RECURSIVE SortedTuple(_)
SortedTuple(S) ==
    IF S = {} THEN <<>>
    ELSE LET least == CHOOSE x \in S : \A y \in S : x <= y
         IN  <<least>> \o SortedTuple(S \ {least})

Range(f) == {f[p] : p \in DOMAIN f}

\* Network.generate_node_indices
GenerateNodeIndices(n, nodes) ==
    LET self == nets[n]
        raised ==
            IF Len(nodes) = 0 THEN "none"
            ELSE IF \A p \in DOMAIN nodes : nodes[p].str
            THEN Labels2IndicesRaises(self, nodes)
            ELSE IF \E p \in DOMAIN nodes : IntRaises(nodes[p]) THEN "ValueError"
            ELSE "none"
        indices ==
            IF Len(nodes) = 0 THEN <<>>
            ELSE IF \A p \in DOMAIN nodes : nodes[p].str
            THEN labels2indices(self, nodes)
            ELSE [p \in DOMAIN nodes |-> int(nodes[p])]
    IN  /\ Constructed(self)
        /\ gni' = [net |-> n, nodes |-> nodes, raised |-> raised,
                   indices |-> IF raised = "none" THEN SortedTuple(Range(indices))
                               ELSE <<>>,
                   called |-> TRUE]
        /\ UNCHANGED <<nets, caches, calls, last, workers, given, sias>>

\* ----------------------------------------------------------------- inputs
\* Two nodes that copy each other, in the three forms a TPM may be given in.
SwapSbn == Array(<<4, 2>>, <<0, 0,  0, One,  One, 0,  One, One>>)

SwapSbs == Array(<<4, 4>>, <<One, 0, 0, 0,  0, 0, One, 0,
                             0, One, 0, 0,  0, 0, 0, One>>)

SwapNd == Array(<<2, 2, 2>>, <<0, 0,  One, 0,  0, One,  One, One>>)

\* every node on with probability one half, whatever the state
NoiseSbn == Full(<<4, 2>>, Half)

\* a probability above 1
BadTpm == Full(<<4, 2>>, One + 1)

Cm2(a, b, c, d) == Array(<<2, 2>>, <<a, b, c, d>>)

\* each node connected to itself only
SelfCm == Cm2(1, 0, 0, 1)

\* a non-binary matrix and one of the wrong size
NonBinaryCm == Cm2(1, 2, 0, 1)

SmallCm == Array(<<1, 1>>, <<1>>)

\* a perturbation vector other than the default
SkewPv == Array(<<2>>, <<One, 0>>)

\* ------------------------------------------------------------ specification
\* Two Networks of varied content, each with its own purview cache.
TpmInputs == {SwapSbn, SwapSbs, SwapNd, NoiseSbn, BadTpm}

CmInputs == {None, Cm2(1, 1, 1, 1), SelfCm, NonBinaryCm}

PvInputs == {None, Full(<<2>>, Half), SkewPv}

LabelInputs == {NoLabels, Labels(<<"A", "B">>)}

Next ==
    \/ \E n \in Slots, tpm \in TpmInputs, cm \in CmInputs,
          labels \in LabelInputs, pv \in PvInputs :
            Construct(n, tpm, cm, labels, pv, NoCache)
    \/ \E n \in Slots, tpm \in TpmInputs : SetTpm(n, tpm)
    \/ \E n \in Slots, cm \in CmInputs : SetCm(n, cm)
    \/ \E n \in Slots, pv \in PvInputs : SetPv(n, pv)
    \/ \E n \in Slots, attr \in Attributes, v \in {0, 1} :
            WriteInPlace(n, attr, 1, v)
    \/ \E n \in Slots : PotentialPurviews(n, FUTURE, {0})

Spec == Init /\ [][Next]_vars

\* Two Networks that differ in their connectivity matrix only and may share
\* a purview cache.
CacheTpmInputs == {SwapSbn, BadTpm}

CacheCmInputs == {None, SelfCm, SmallCm}

CacheInputs == {NoCache} \cup CacheIds

QueryKeys == {<<PAST, {0}>>, <<FUTURE, {0, 1}>>}

NextCache ==
    \/ \E n \in Slots, tpm \in CacheTpmInputs, cm \in CacheCmInputs,
          cache \in CacheInputs :
            Construct(n, tpm, cm, NoLabels, None, cache)
    \/ \E n \in Slots, cm \in CacheCmInputs : SetCm(n, cm)
    \/ \E n \in Slots, k \in QueryKeys : PotentialPurviews(n, k[1], k[2])

SpecCache == Init /\ [][NextCache]_vars

\* One TPM in its three input forms: slot A is built from the state-by-state
\* matrix the caller holds, slot B from the corresponding state-by-node TPM.
Rows(S) == {r \in [1..S -> 0..One] : SumSeq(r) = One}

OneHot(S) == {r \in Rows(S) : \E c \in 1..S : r[c] = One}

Flat2(S, m) == [p \in 1..(S * S) |-> m[((p - 1) \div S) + 1][((p - 1) % S) + 1]]

\* state-by-state matrices of one node, and of two nodes (the last two rows
\* deterministic)
SbsInputs ==
    {Array(<<2, 2>>, Flat2(2, m)) : m \in [1..2 -> Rows(2)]}
        \cup {Array(<<4, 4>>, Flat2(4, <<r1, r2, r3, r4>>)) :
                 r1 \in Rows(4), r2 \in Rows(4), r3 \in OneHot(4), r4 \in OneHot(4)}

\* the probability that node k is on after state i
OnProbability(m, i, k) ==
    SumSeq([c \in 1..m.shape[2] |->
               IF ((c - 1) \div Pow2(k)) % 2 = 1 THEN At2(m, i, c - 1) ELSE 0])

\* the 2-D state-by-node TPM that corresponds to a state-by-state matrix
Sbn2dOf(m) ==
    LET S == m.shape[1]
        N == Log2(S)
    IN  Array(<<S, N>>,
              [p \in 1..(S * N) |-> OnProbability(m, (p - 1) \div N, (p - 1) % N)])

\* index d (from 0) of the element at C-order position q of an array
Unravel(q, shape, d) ==
    (q \div Prod(SubSeq(shape, d + 2, Len(shape)))) % shape[d + 1]

\* the 2-D row of the state (b_0, ..., b_{N-1}) at position q: sum of b_k * 2^k
RowOfState(q, shape) ==
    SumSeq([d \in 1..(Len(shape) - 1) |-> Unravel(q, shape, d - 1) * Pow2(d - 1)])

\* the [2] * N + [N] state-by-node TPM that corresponds to it
NdOf(m) ==
    LET N == Log2(m.shape[1])
        shape == [d \in 1..(N + 1) |-> IF d = N + 1 THEN N ELSE 2]
    IN  Array(shape,
              [p \in 1..Prod(shape) |->
                  OnProbability(m, RowOfState(p - 1, shape),
                                Unravel(p - 1, shape, N))])

InitTpm ==
    /\ nets = [n \in Slots |-> NoNet]
    /\ caches = [c \in CacheIds |-> EmptyCache]
    /\ calls = [n \in Slots |-> [k \in Keys |-> 0]]
    /\ last = Returned
    /\ workers = [w \in Workers |-> Idle]
    /\ gni = NoGni
    /\ given \in SbsInputs
    /\ sias = [i \in SiaIds |-> NoSia]

\* all ones (None), or every node connected to itself only
OwnCm(m) ==
    LET N == Log2(m.shape[1])
    IN  Array(<<N, N>>, [p \in 1..(N * N) |-> IF (p - 1) \div N = (p - 1) % N THEN 1 ELSE 0])

FromStateByState(cm) == Construct("A", given, cm, NoLabels, None, NoCache)

FromStateByNode(tpm, cm) == Construct("B", tpm, cm, NoLabels, None, NoCache)

NextTpm ==
    \/ \E cm \in {None, OwnCm(given)} : FromStateByState(cm)
    \/ \E tpm \in {Sbn2dOf(given), NdOf(given)}, cm \in {None, OwnCm(given)} :
            FromStateByNode(tpm, cm)

SpecTpm == InitTpm /\ [][NextTpm]_vars

\* Worker threads that query the purview cache of one Network while the
\* thread that owns it goes on.
NextWorkers ==
    \/ \E cm \in {None, SelfCm} : Construct("A", SwapSbn, cm, NoLabels, None, NoCache)
    \/ \E cm \in {None, SelfCm} : SetCm("A", cm)
    \/ \E w \in Workers, k \in QueryKeys : WorkerGet(w, "A", k[1], k[2])
    \/ \E w \in Workers : WorkerCompute(w)
    \/ \E w \in Workers : WorkerSet(w)
    \/ \E w \in Workers : WorkerReturn(w)

SpecWorkers == Init /\ [][NextWorkers]_vars

\* generate_node_indices on a Network with or without node labels.
MaxNodes == 2

GniLabelInputs == {NoLabels, Labels(<<"A", "B">>), Labels(<<"1", "0">>)}

NodeInputs == {Str("A"), Str("B"), Str("0"), Str("1"), Str("Z")}
                  \cup {Idx(0), Idx(1)}

NodesInputs == UNION {[1..len -> NodeInputs] : len \in 0..MaxNodes}

NextGni ==
    \/ \E labels \in GniLabelInputs :
            Construct("A", SwapSbn, None, labels, None, NoCache)
    \/ \E nodes \in NodesInputs : GenerateNodeIndices("A", nodes)

SpecGni == Init /\ [][NextGni]_vars

\* ------------------------------------------------------------------ claims
Content(a) == <<a.shape, a.flat>>

SameContent(x, y) ==
    /\ Content(x.tpm) = Content(y.tpm)
    /\ Content(x.connectivity_matrix) = Content(y.connectivity_matrix)
    /\ Content(x.perturb_vector) = Content(y.perturb_vector)

Filled(n) == \E k \in Keys : caches[nets[n].purview_cache][k].hit

\* C1: once a Network is constructed, no operation changes the content of its
\* tpm, connectivity_matrix or perturb_vector.
C1_ContentNeverChanges ==
    [][\A n \in Slots :
          Constructed(nets[n]) => SameContent(nets'[n], nets[n])]_vars

\* C2: every Network a caller can observe has a validated TPM and CM, and a
\* validation error is raised by a constructor only, never later.
C2_AlwaysValidated ==
    /\ \A n \in Slots : Constructed(nets[n]) => ValidNetwork(nets[n])
    /\ last.raised = "ValidationError" => last.op = "Network"

\* C3: A == B exactly when tpm, connectivity_matrix and perturb_vector are
\* element-wise equal, whatever the node labels and the purview caches hold;
\* a Network never equals a non-Network.
C3_EqIsContentEquality ==
    \A a \in Slots :
        Constructed(nets[a]) =>
            /\ \A b \in Slots :
                  Constructed(nets[b]) =>
                      (Eq(nets[a], nets[b]) <=> SameContent(nets[a], nets[b]))
            /\ ~Eq(nets[a], to_json(nets[a]))
            /\ ~Eq(nets[a], NoNet)

C3_Witness ==
    /\ Constructed(nets["A"]) /\ Constructed(nets["B"])
    /\ Eq(nets["A"], nets["B"])
    /\ nets["A"].node_labels # nets["B"].node_labels
    /\ Filled("A") /\ ~Filled("B")

\* C4: equal Networks have equal hashes, and a potential-purviews query that
\* fills the purview cache leaves the hash of every Network as it was.
C4_HashFollowsEq ==
    /\ [](\A a, b \in Slots :
            Constructed(nets[a]) /\ Constructed(nets[b]) /\ Eq(nets[a], nets[b])
                => Hash(nets[a]) = Hash(nets[b]))
    /\ [][\A n \in Slots :
            Constructed(nets[n]) /\ caches' # caches
                => Hash(nets[n])' = Hash(nets[n])]_vars

C4_Witness ==
    /\ Constructed(nets["A"]) /\ Constructed(nets["B"])
    /\ Eq(nets["A"], nets["B"])
    /\ Hash(nets["A"]) = Hash(nets["B"])
    /\ ~Filled("A") /\ Filled("B")
    /\ last.op = "potential_purviews" /\ last.net = "B"

\* C5: a Network built from a state-by-state TPM and one built from the
\* corresponding state-by-node TPM (2-D or N-D), with the same CM and
\* perturbation vector, store the same [2]*N+[N] tensor and compare equal; a
\* canonical N-D TPM is stored unchanged; tensor index (b_0, ..., b_{N-1})
\* holds 2-D row sum of b_k * 2^k.
C5_CanonicalTpm ==
    /\ \A n \in Slots :
          Constructed(nets[n]) =>
              /\ Content(nets[n].tpm) = Content(NdOf(given))
              /\ \A p \in 1..Len(nets[n].tpm.flat) :
                    nets[n].tpm.flat[p] =
                        At2(Sbn2dOf(given), RowOfState(p - 1, nets[n].tpm.shape),
                            Unravel(p - 1, nets[n].tpm.shape, size(nets[n])))
    /\ (/\ Constructed(nets["A"]) /\ Constructed(nets["B"])
        /\ Content(nets["A"].connectivity_matrix) = Content(nets["B"].connectivity_matrix)
        /\ Content(nets["A"].perturb_vector) = Content(nets["B"].perturb_vector))
            => Eq(nets["A"], nets["B"])

C5_Witness ==
    /\ Constructed(nets["A"]) /\ Constructed(nets["B"])
    /\ size(nets["A"]) = 2
    /\ Sbn2dOf(given).flat # NdOf(given).flat
    /\ Eq(nets["A"], nets["B"])

\* the connections of cm from node i to node j, none outside the matrix
Edge(cm, i, j) ==
    /\ ndim(cm) = 2 /\ i < cm.shape[1] /\ j < cm.shape[2]
    /\ At2(cm, i, j) # 0

\* brute force: the two sides split into two parts with no connection across
Decomposable(cm, from, to) ==
    \/ from = {} \/ to = {}
    \/ \E f1 \in SUBSET from, t1 \in SUBSET to :
          /\ f1 \cup t1 # {}
          /\ (from \ f1) \cup (to \ t1) # {}
          /\ \A i \in f1, j \in to \ t1 : ~Edge(cm, i, j)
          /\ \A i \in from \ f1, j \in t1 : ~Edge(cm, i, j)

BruteForcePurviews(self, direction, mechanism) ==
    {purview \in SUBSET self.node_indices :
        IF direction = PAST
        THEN ~Decomposable(self.connectivity_matrix, purview, mechanism)
        ELSE ~Decomposable(self.connectivity_matrix, mechanism, purview)}

\* C6: for every direction and mechanism the potential-purviews query returns
\* exactly the subsets of the node indices that a brute-force filter finds
\* not block-reducible in the Network's CM, from purview to mechanism for the
\* past and from mechanism to purview for the future.
C6_ExactPurviews ==
    (last.op = "potential_purviews" /\ last.raised = "none")
        => last.value = BruteForcePurviews(nets[last.net], last.key[1], last.key[2])

\* C7: on one Network the computation runs at most once for a key; every
\* later query with that key is answered from the cache.
C7_ComputedOnce ==
    /\ \A n \in Slots, k \in Keys : calls[n][k] <= 1
    /\ (last.op = "potential_purviews" /\ last.hit)
          => caches[nets[last.net].purview_cache][last.key].value = last.value

\* C8: a query on a Network never returns an entry that was computed for a
\* different Network, one with a different CM.
C8_NoForeignEntry ==
    (last.op = "potential_purviews" /\ last.hit /\ last.by # last.net)
        => Content(nets[last.by].connectivity_matrix)
              = Content(nets[last.net].connectivity_matrix)

\* C9: a worker that reads the cache finds no entry or the correct result of
\* the key, and a write for a key that has an entry leaves the same result.
C9_ReadersSeeCorrect ==
    /\ [](\A w \in Workers : workers[w].pc = "read" => workers[w].correct)
    /\ [][\A c \in CacheIds, k \in Keys :
            caches[c][k].hit => caches'[c][k].value = caches[c][k].value]_vars

\* C10: generate_node_indices returns the deduplicated ascending tuple of
\* indices for all labels or all indices (the empty tuple for no nodes) and
\* fails when nodes mixes labels with indices or holds an unknown label.
C10_LabelsOrIndices ==
    gni.called =>
        LET nodes == gni.nodes
            strs == {p \in DOMAIN nodes : nodes[p].str}
            known == IF nets[gni.net].node_labels.given
                     THEN Range(nets[gni.net].node_labels.names) ELSE {}
        IN  /\ nodes = <<>> => gni.raised = "none" /\ gni.indices = <<>>
            /\ (strs = {} /\ nodes # <<>>) =>
                  /\ gni.raised = "none"
                  /\ gni.indices = SortedTuple({nodes[p].i : p \in DOMAIN nodes})
            /\ (strs = DOMAIN nodes /\ nodes # <<>>
                    /\ \A p \in strs : nodes[p].s \in known) =>
                  /\ gni.raised = "none"
                  /\ \A x \in 0..1 :
                        (\E q \in DOMAIN gni.indices : gni.indices[q] = x)
                            <=> (\E p \in strs :
                                    nets[gni.net].node_labels.names[x + 1] = nodes[p].s)
                  /\ \A q \in 1..(Len(gni.indices) - 1) :
                        gni.indices[q] < gni.indices[q + 1]
            /\ (strs # {} /\ strs # DOMAIN nodes) => gni.raised # "none"
            /\ (\E p \in strs : nodes[p].s \notin known) => gni.raised # "none"

\* ------------------------------------------------------- serialisation
\* A Network built from any input form, written out with to_json and read back
\* with from_json into slot B.

\* the nested lists of a serialised array, read back by json.load
Loaded(a) == Array(a.shape, a.flat)

\* from_json on the file that holds to_json(nets[src]): a new Network in slot n
from_json(src, n) ==
    /\ Constructed(nets[src])
    /\ LET network_dictionary == to_json(nets[src])
       IN  Construct(n, Loaded(network_dictionary.tpm),
                     Loaded(network_dictionary.cm), NoLabels, None, NoCache)

\* a perturbation vector that is not the default
OnPv(m) == Full(<<Log2(m.shape[1])>>, One)

NextJson ==
    \/ \E tpm \in {given, Sbn2dOf(given), NdOf(given)},
          cm \in {None, OwnCm(given)}, pv \in {None, OnPv(given)} :
            Construct("A", tpm, cm, NoLabels, pv, NoCache)
    \/ from_json("A", "B")

SpecJson == InitTpm /\ [][NextJson]_vars

\* C17: a Network read back from its to_json form is content-equal (==) to
\* the original, whichever TPM input form the original was built from, and
\* reading it back raises nothing.
C17_RoundTrip ==
    /\ Constructed(nets["B"]) => Eq(nets["A"], nets["B"]) /\ Eq(nets["B"], nets["A"])
    /\ ~(last.raised # "none" /\ last.net = "B")

\* ------------------------------------------- SystemIrreducibilityAnalysis
\* phi values lie on an integer grid; two values closer than Tolerance grid
\* steps are equal for utils.eq.
Tolerance == 2
MaxPhi == 2

\* utils.eq: numeric equality up to the tolerance
utils_eq(x, y) == IF x >= y THEN x - y < Tolerance ELSE y - x < Tolerance

\* a time that was not given
NoTime == -1

\* a Subsystem of the Network in slot n, with or without a cut applied
NullCut == "null"
Subsystem(n, node_indices, cut) ==
    [type |-> "Subsystem", network |-> n, node_indices |-> node_indices, cut |-> cut]

\* len(subsystem)
len(subsystem) == Len(subsystem.node_indices)

\* Subsystem.__eq__
SubsystemEq(s, t) ==
    /\ Eq(nets[s.network], nets[t.network])
    /\ s.node_indices = t.node_indices
    /\ s.cut = t.cut

\* hash of a tuple of small integers or of distinction names
SeqHash(t) == (Len(t) + 7 * SumSeq([k \in 1..Len(t) |-> k + 1])) % HashMod

IndicesHash(t) == (Len(t) + 7 * SumSeq([k \in 1..Len(t) |-> (k + 1) * (t[k] + 1)])) % HashMod

\* Subsystem.__hash__
SubsystemHash(s) ==
    TupleHash(Hash(nets[s.network]), IndicesHash(s.node_indices),
              IF s.cut = NullCut THEN 0 ELSE 1)

\* SystemIrreducibilityAnalysis.__init__
SIA(phi, unpartitioned_ces, partitioned_ces, subsystem, cut_subsystem, time, small_phi_time) ==
    [type |-> "SIA", phi |-> phi, unpartitioned_ces |-> unpartitioned_ces,
     partitioned_ces |-> partitioned_ces, subsystem |-> subsystem,
     cut_subsystem |-> cut_subsystem, time |-> time,
     small_phi_time |-> small_phi_time, made_by |-> "__init__"]

\* _null_sia
null_sia(subsystem, phi) ==
    [SIA(phi, <<>>, <<>>, subsystem, subsystem, NoTime, NoTime)
        EXCEPT !.made_by = "_null_sia"]

\* SystemIrreducibilityAnalysis.network
network(self) == nets[self.subsystem.network]

\* an attribute list that also holds the running time
sia_attributes_with_time ==
    <<"phi", "unpartitioned_ces", "partitioned_ces", "subsystem", "cut_subsystem",
      "time">>

\* _sia_attributes
sia_attributes ==
    <<"phi", "unpartitioned_ces", "partitioned_ces", "subsystem", "cut_subsystem">>

\* no attribute has to be equal for two analyses to be ordered
unorderable_unless_nothing == <<>>

\* SystemIrreducibilityAnalysis.unorderable_unless_eq
unorderable_unless_eq == <<"network">>

\* an order_by that leaves the size of the subsystem out
order_by_without_size(self) ==
    <<self.phi, 0, self.subsystem.node_indices>>

\* SystemIrreducibilityAnalysis.order_by
order_by(self) ==
    <<self.phi, len(self.subsystem), self.subsystem.node_indices>>

\* cmp.general_eq on one attribute: phi up to the tolerance, the rest by ==
AttrEq(a, b, attr) ==
    CASE attr = "phi" -> utils_eq(a.phi, b.phi)
      [] attr = "network" -> Eq(network(a), network(b))
      [] attr = "subsystem" -> SubsystemEq(a.subsystem, b.subsystem)
      [] attr = "cut_subsystem" -> SubsystemEq(a.cut_subsystem, b.cut_subsystem)
      [] OTHER -> a[attr] = b[attr]

\* cmp.general_eq
general_eq(a, b, attributes) ==
    \A k \in 1..Len(attributes) : AttrEq(a, b, attributes[k])

\* SystemIrreducibilityAnalysis.__eq__
SiaEq(self, other) == general_eq(self, other, sia_attributes)

\* SystemIrreducibilityAnalysis.__bool__
bool(self) == ~utils_eq(self.phi, 0)

\* SystemIrreducibilityAnalysis.__hash__
SiaHash(self) ==
    TupleHash(TupleHash(self.phi % HashMod, SeqHash(self.unpartitioned_ces),
                        SeqHash(self.partitioned_ces)),
              SubsystemHash(self.subsystem), SubsystemHash(self.cut_subsystem))

\* SystemIrreducibilityAnalysis.to_json
sia_to_json(self) ==
    [phi |-> self.phi, unpartitioned_ces |-> self.unpartitioned_ces,
     partitioned_ces |-> self.partitioned_ces, subsystem |-> self.subsystem,
     cut_subsystem |-> self.cut_subsystem, time |-> self.time,
     small_phi_time |-> self.small_phi_time]

\* tuple < tuple: the first position that differs decides, then the length
RECURSIVE TupleLt(_, _)
TupleLt(x, y) ==
    IF x = <<>> THEN y # <<>>
    ELSE IF y = <<>> THEN FALSE
    ELSE IF Head(x) # Head(y) THEN Head(x) < Head(y)
    ELSE TupleLt(Tail(x), Tail(y))

\* the order of two order_by lists from position k on: the first position
\* that is not tied decides; phi (position 1) is tied up to the tolerance
RECURSIVE ListLt(_, _, _)
ListLt(x, y, k) ==
    IF k > Len(x) THEN FALSE
    ELSE IF k = 1 /\ ~utils_eq(x[k], y[k]) THEN x[k] < y[k]
    ELSE IF k = 2 /\ x[k] # y[k] THEN x[k] < y[k]
    ELSE IF k = 3 /\ x[k] # y[k] THEN TupleLt(x[k], y[k])
    ELSE ListLt(x, y, k + 1)

\* the result of a comparison: a truth value, or the error it raised
Value(v) == [raised |-> "none", value |-> v]
ComparisonError == [raised |-> "ComparisonError", value |-> FALSE]

\* cmp.Orderable.__lt__
lt(self, other) ==
    IF ~general_eq(self, other, unorderable_unless_eq) THEN ComparisonError
    ELSE Value(ListLt(order_by(self), order_by(other), 1))

\* cmp.Orderable.__le__
le(self, other) ==
    IF lt(self, other).raised # "none" THEN ComparisonError
    ELSE Value(lt(self, other).value \/ SiaEq(self, other))

\* cmp.Orderable.__gt__
gt(self, other) == lt(other, self)

\* cmp.Orderable.__ge__
ge(self, other) ==
    IF lt(other, self).raised # "none" THEN ComparisonError
    ELSE Value(lt(other, self).value \/ SiaEq(self, other))

\* SystemIrreducibilityAnalysis(...) bound to the name i
NewSia(i, phi, unpartitioned_ces, partitioned_ces, subsystem, cut_subsystem, time, small_phi_time) ==
    /\ sias[i] = NoSia
    /\ \A j \in 1..(i - 1) : sias[j] # NoSia
    /\ Constructed(nets[subsystem.network])
    /\ Constructed(nets[cut_subsystem.network])
    /\ sias' = [sias EXCEPT ![i] = SIA(phi, unpartitioned_ces, partitioned_ces,
                                       subsystem, cut_subsystem, time,
                                       small_phi_time)]
    /\ UNCHANGED <<nets, caches, calls, last, workers, gni, given>>

\* _null_sia(subsystem, phi) bound to the name i
NullSia(i, subsystem, phi) ==
    /\ sias[i] = NoSia
    /\ \A j \in 1..(i - 1) : sias[j] # NoSia
    /\ Constructed(nets[subsystem.network])
    /\ sias' = [sias EXCEPT ![i] = null_sia(subsystem, phi)]
    /\ UNCHANGED <<nets, caches, calls, last, workers, gni, given>>

\* Analyses of subsystems of two Networks that may or may not be
\* content-equal, ranked against each other.
PhiInputs == 0..MaxPhi

NodeIndexInputs == {<<0>>, <<1>>, <<0, 1>>}

OrderTpmInputs == {SwapSbn, NoiseSbn}

NextOrderOf(ids) ==
    \/ \E n \in Slots, tpm \in OrderTpmInputs :
            Construct(n, tpm, None, NoLabels, None, NoCache)
    \/ \E n \in Slots, tpm \in OrderTpmInputs : SetTpm(n, tpm)
    \/ \E i \in ids, phi \in PhiInputs, n \in Slots, t \in NodeIndexInputs :
            NewSia(i, phi, <<>>, <<>>, Subsystem(n, t, NullCut),
                   Subsystem(n, t, NullCut), NoTime, NoTime)

NextOrder == NextOrderOf(1..MaxSias)

SpecOrder == Init /\ [][NextOrder]_vars

NextTriple == NextOrderOf(SiaIds)

SpecTriple == Init /\ [][NextTriple]_vars

\* Two analyses of subsystems of one Network, over every combination of
\* their fields, made by the constructor or by _null_sia.
SiaPair == {1, 2}

SignedPhiInputs == (0 - Tolerance)..MaxPhi

CesInputs == {<<>>, <<"d">>}

CutInputs == {NullCut, "cut"}

TimeInputs == {NoTime, 1}

NextSia ==
    \/ Construct("A", SwapSbn, None, NoLabels, None, NoCache)
    \/ \E i \in SiaPair, phi \in SignedPhiInputs, u \in CesInputs, p \in CesInputs,
          t \in {<<0>>, <<0, 1>>}, cut \in CutInputs, time \in TimeInputs,
          small_phi_time \in TimeInputs :
            NewSia(i, phi, u, p, Subsystem("A", t, NullCut), Subsystem("A", t, cut),
                   time, small_phi_time)
    \/ \E i \in SiaPair, t \in {<<0>>, <<0, 1>>}, phi \in SignedPhiInputs :
            NullSia(i, Subsystem("A", t, NullCut), phi)

SpecSia == Init /\ [][NextSia]_vars

\* ------------------------------------------------- claims about the SIA
\* the names that are bound to an analysis
Made == {i \in SiaIds : sias[i] # NoSia}

\* the two analyses are over content-equal Networks
Comparable(a, b) ==
    /\ Eq(nets[a.subsystem.network], nets[b.subsystem.network])
    /\ Eq(nets[b.subsystem.network], nets[a.subsystem.network])

PhiTied(a, b) == (a.phi - b.phi) \in (1 - Tolerance)..(Tolerance - 1)

SizeOf(a) == Len(a.subsystem.node_indices)

\* x comes before y in the lexicographic order of tuples
LexLess(x, y) ==
    \E k \in 1..Len(y) :
        /\ \A m \in 1..(k - 1) : m <= Len(x) /\ x[m] = y[m]
        /\ k > Len(x) \/ x[k] < y[k]

\* a ranks below b in the order the specification describes
RanksBelow(a, b) ==
    IF ~PhiTied(a, b) THEN a.phi < b.phi
    ELSE IF SizeOf(a) # SizeOf(b) THEN SizeOf(a) < SizeOf(b)
    ELSE LexLess(a.subsystem.node_indices, b.subsystem.node_indices)

\* C11: for two SIAs over content-equal networks the order compares phi
\* first, phi values closer than the tolerance being tied; on a phi tie the
\* SIA with the larger subsystem is greater; on a further tie the node-index
\* tuples are compared lexicographically.
C11_PhiThenSizeThenIndices ==
    \A i \in Made, j \in Made :
        LET a == sias[i]
            b == sias[j]
        IN  Comparable(a, b) =>
                /\ lt(a, b) = Value(RanksBelow(a, b))
                /\ gt(a, b) = Value(RanksBelow(b, a))

\* two analyses whose phi differ by less than the tolerance, over distinct
\* but content-equal Networks, are ordered by the size of their subsystems
C11_Witness ==
    \E i \in Made, j \in Made :
        LET a == sias[i]
            b == sias[j]
        IN  /\ a.subsystem.network # b.subsystem.network
            /\ Comparable(a, b)
            /\ a.phi > b.phi /\ PhiTied(a, b)
            /\ SizeOf(a) < SizeOf(b)
            /\ lt(a, b) = Value(TRUE)

\* C12: over content-equal networks the SIA order is transitive (a < b and
\* b < c imply a < c) and antisymmetric up to the tolerance rule (a < b and
\* b < a never both hold; a <= b and b <= a imply that a and b tie on phi,
\* subsystem size and node indices).
C12_TransitiveAntisymmetric ==
    \A i \in Made, j \in Made, k \in Made :
        LET a == sias[i]
            b == sias[j]
            c == sias[k]
        IN  (Comparable(a, b) /\ Comparable(b, c) /\ Comparable(a, c)) =>
                /\ (lt(a, b).value /\ lt(b, c).value) => lt(a, c).value
                /\ ~(lt(a, b).value /\ lt(b, a).value)
                /\ (le(a, b).value /\ le(b, a).value) =>
                        /\ PhiTied(a, b)
                        /\ SizeOf(a) = SizeOf(b)
                        /\ a.subsystem.node_indices = b.subsystem.node_indices

\* C13: ordering two SIAs (<, <=, >, >=) whose networks are not
\* content-equal is rejected with an error and gives no result; it is
\* permitted when the networks are distinct objects that are content-equal.
C13_OrderingNeedsEqualNetworks ==
    \A i \in Made, j \in Made :
        LET a == sias[i]
            b == sias[j]
            results == {lt(a, b), le(a, b), gt(a, b), ge(a, b)}
        IN  IF Comparable(a, b)
            THEN \A r \in results : r.raised = "none"
            ELSE results = {ComparisonError}

\* an ordering of analyses over Networks that differ in content was rejected
C13_Witness ==
    \E i \in Made, j \in Made :
        /\ sias[i].subsystem.network # sias[j].subsystem.network
        /\ ~Comparable(sias[i], sias[j])
        /\ lt(sias[i], sias[j]) = ComparisonError
        /\ ge(sias[i], sias[j]) = ComparisonError

\* C14: an SIA is truthy iff its phi is greater than zero beyond the numeric
\* tolerance: phi equal to zero or within the tolerance of zero gives False,
\* phi above the tolerance gives True, and no SIA whose phi is not greater
\* than zero is truthy.
C14_TruthyIffPhiPositive ==
    \A i \in Made : bool(sias[i]) = (sias[i].phi >= Tolerance)

C16_NullSiaIsZero ==
    \A i \in Made :
        sias[i].made_by = "_null_sia" =>
            /\ utils_eq(sias[i].phi, 0)
            /\ sias[i].unpartitioned_ces = <<>>
            /\ sias[i].partitioned_ces = <<>>
            /\ sias[i].cut_subsystem = sias[i].subsystem
            /\ ~bool(sias[i])

\* C18: once an SIA is constructed its five fields never change under any
\* later operation, and its equality, its place in the order and its hash
\* are the same at every later point.
C18_SiaNeverChanges ==
    [][\A i \in Made, j \in Made :
          /\ sias'[i] = sias[i]
          /\ SiaEq(sias[i], sias[j])' = SiaEq(sias[i], sias[j])
          /\ lt(sias[i], sias[j])' = lt(sias[i], sias[j])
          /\ SiaHash(sias[i])' = SiaHash(sias[i])]_vars

\* C19: SIA hashing is consistent with SIA equality: a == b implies
\* hash(a) == hash(b), also when the phi values differ by less than the
\* equality tolerance.
C19_SiaHashFollowsEq ==
    \A i \in Made, j \in Made :
        SiaEq(sias[i], sias[j]) => SiaHash(sias[i]) = SiaHash(sias[j])

=============================================================================
